---------------------------- MODULE Spec2Model ----------------------------
(***************************************************************************)
(* MeshGuard Python client: the decision protocol (check / enforce /       *)
(* govern) of meshguard/client.py and the tool governance adapter          *)
(* (governed_tool, GovernedTool) of meshguard/langchain.py.                *)
(*                                                                         *)
(* Every call runs in an execution context.  A call sends its request,     *)
(* blocks until the transport answers (a response or a raised transport    *)
(* exception), resolves the answer and either finishes or enters the       *)
(* guarded code (tool, wrapped function, scope body), which finishes       *)
(* later.  The caller then takes the outcome and the context is free.      *)
(* The proxy request, health and the admin operations are calls of the     *)
(* same shape; building a client or a toolkit's tools is a call without a  *)
(* round trip.                                                             *)
(* Spec runs the calls of one context one after another; SpecConc          *)
(* interleaves check, enforce and govern calls of two contexts.            *)
(***************************************************************************)
EXTENDS Naturals, Sequences, FiniteSets, TLC

(***************************************************************************)
(* Values                                                                  *)
(***************************************************************************)

\* Python's None, and an absent optional string.
None == "None"

\* Python truthiness of an optional string: None and "" are falsy.
Truthy(s) == s \notin {None, ""}

\* Execution contexts; the sequential specification drives the first only.
Ctxs == {"c1", "c2"}
SeqCtxs == {"c1"}

\* Action identifiers (required, non-empty) and optional resources.
ActionIds == {"read:contacts", "delete:database"}
Resources == {None, "", "contacts/789"}

\* The opaque (positional, keyword) arguments a caller hands to a tool.
ArgVals == {"args-1", "args-2"}

\* What the opaque collaborators return.
ToolResults == {"result-1", "result-2"}
DenyResults == {"Access denied"}

\* Shapes of a decorated function: its parameter list may declare
\* meshguard_decision, or it may only use that name for a local variable.
FuncKinds == {"plain", "param", "local"}

\* Status codes the authority may answer with.
Statuses == {200, 204, 302, 400, 401, 403, 429, 500}

\* A Python dict as a function from its keys.
EmptyDict == [k \in {} |-> None]
SetItem(d, k, v) == (k :> v) @@ d
Get(d, k, default) == IF k \in DOMAIN d THEN d[k] ELSE default

\* JSON objects of the wire format: every field optional.
BodyKeys == {"policy", "rule", "message", "action"}
FieldVals(k) ==
    CASE k = "policy" -> {"strict"}
      [] k = "rule" -> {"no-delete"}
      [] k = "message" -> {"", "Delete operations not allowed"}
      [] k = "action" -> {"write:email"}
AllFieldVals == UNION {FieldVals(k) : k \in BodyKeys}
JsonObjects ==
    UNION {{d \in [K -> AllFieldVals] : \A k \in K : d[k] \in FieldVals(k)}
           : K \in SUBSET BodyKeys}

\* A response body: no content, a JSON object, or content that is not JSON.
Bodies ==
    {[kind |-> "empty"], [kind |-> "invalid"]}
    \cup {[kind |-> "object", json |-> d] : d \in JsonObjects}

\* What the transport hands back: a response, or an exception it raised.
TransportFailure == [kind |-> "exception"]
Responses ==
    {[kind |-> "response", status_code |-> s, body |-> b]
     : s \in Statuses, b \in Bodies}
    \cup {TransportFailure}

\* Outcomes of a call: a returned Decision, a returned plain value, or a
\* raised exception.
Pending == [kind |-> "pending"]
Returns(d) == [kind |-> "return", decision |-> d]
Value(v) == [kind |-> "value", val |-> v]
Raises(e) == [kind |-> "raise", err |-> e]

NoDecision == [absent |-> TRUE]
NoResponse == [kind |-> "none"]

(***************************************************************************)
(* exceptions.py                                                           *)
(***************************************************************************)

DefaultReason == "Access denied by policy"

PolicyDeniedError(action, policy, rule, reason) ==
    [type |-> "PolicyDeniedError",
     action |-> action,
     policy |-> policy,
     rule |-> rule,
     reason |-> IF Truthy(reason) THEN reason ELSE DefaultReason]

AuthenticationError(message) ==
    [type |-> "AuthenticationError", message |-> message]

RateLimitError(message) ==
    [type |-> "RateLimitError", message |-> message]

MeshGuardError(status_code, text) ==
    [type |-> "MeshGuardError", status_code |-> status_code, text |-> text]

\* Exceptions of the collaborators, none of them a MeshGuardError.
TransportError == [type |-> "TransportError"]
JSONDecodeError == [type |-> "JSONDecodeError"]
TypeError == [type |-> "TypeError"]
ToolError == [type |-> "ToolError"]

(***************************************************************************)
(* client.py                                                               *)
(***************************************************************************)

PolicyDecision(allowed, action, decision, policy, rule, reason, trace_id) ==
    [allowed |-> allowed,
     action |-> action,
     decision |-> decision,
     policy |-> policy,
     rule |-> rule,
     reason |-> reason,
     trace_id |-> trace_id]

\* _headers(include_auth)
Headers(cl, include_auth) ==
    LET headers == SetItem(EmptyDict, "X-MeshGuard-Trace-ID", cl.trace_id)
    IN  IF include_auth /\ Truthy(cl.agent_token)
        THEN SetItem(headers, "Authorization", <<"Bearer", cl.agent_token>>)
        ELSE headers

\* Faulty variant of ParseBody: json() is called whether or not the response
\* has content, and raises on an empty body.
ParseBodyUnguarded(body) ==
    CASE body.kind = "empty" -> [ok |-> FALSE, data |-> EmptyDict]
      [] body.kind = "object" -> [ok |-> TRUE, data |-> body.json]
      [] body.kind = "invalid" -> [ok |-> FALSE, data |-> EmptyDict]

\* `response.json() if response.content else {}`: the parsed body, or the
\* exception json() raises on content that is not JSON.
ParseBody(body) ==
    CASE body.kind = "empty" -> [ok |-> TRUE, data |-> EmptyDict]
      [] body.kind = "object" -> [ok |-> TRUE, data |-> body.json]
      [] body.kind = "invalid" -> [ok |-> FALSE, data |-> EmptyDict]

\* Faulty variant of HandleResponse: no branch for 429, and the 403 branch
\* takes the fields of the body without defaults.
HandleResponseNoDefaults(response) ==
    IF response.status_code = 401
    THEN Raises(AuthenticationError("Invalid or expired token"))
    ELSE IF response.status_code = 403
    THEN LET p == ParseBody(response.body)
         IN  IF ~p.ok
             THEN Raises(JSONDecodeError)
             ELSE Raises(PolicyDeniedError(Get(p.data, "action", None),
                                           Get(p.data, "policy", None),
                                           Get(p.data, "rule", None),
                                           Get(p.data, "message", None)))
    ELSE IF response.status_code >= 400
    THEN Raises(MeshGuardError(response.status_code, response.body))
    ELSE LET p == ParseBody(response.body)
         IN  IF p.ok THEN [kind |-> "data", data |-> p.data]
                     ELSE Raises(JSONDecodeError)

\* _handle_response(response): the parsed body, or a raised exception.
HandleResponse(response) ==
    IF response.status_code = 401
    THEN Raises(AuthenticationError("Invalid or expired token"))
    ELSE IF response.status_code = 403
    THEN LET p == ParseBody(response.body)
         IN  IF ~p.ok
             THEN Raises(JSONDecodeError)
             ELSE Raises(PolicyDeniedError(Get(p.data, "action", "unknown"),
                                           Get(p.data, "policy", None),
                                           Get(p.data, "rule", None),
                                           Get(p.data, "message", DefaultReason)))
    ELSE IF response.status_code = 429
    THEN Raises(RateLimitError("Rate limit exceeded"))
    ELSE IF response.status_code >= 400
    THEN Raises(MeshGuardError(response.status_code, response.body))
    ELSE LET p == ParseBody(response.body)
         IN  IF p.ok THEN [kind |-> "data", data |-> p.data]
                     ELSE Raises(JSONDecodeError)

\* Faulty variant of CheckRequest: the resource header is set without the
\* test of `if resource:`, and the Authorization header is left out.
CheckRequestUnconditional(cl, action, resource) ==
    [method |-> "GET",
     url |-> <<cl.gateway_url, "/proxy/check">>,
     headers |-> SetItem(SetItem(Headers(cl, FALSE), "X-MeshGuard-Action", action),
                         "X-MeshGuard-Resource", resource)]

\* The request check(action, resource) sends.
CheckRequest(cl, action, resource) ==
    LET headers == SetItem(Headers(cl, TRUE), "X-MeshGuard-Action", action)
    IN  [method |-> "GET",
         url |-> <<cl.gateway_url, "/proxy/check">>,
         headers |-> IF Truthy(resource)
                     THEN SetItem(headers, "X-MeshGuard-Resource", resource)
                     ELSE headers]

\* Faulty variant of CheckExcept: the handler catches every MeshGuardError.
CheckExceptAny(cl, action, out) ==
    IF out.err.type \in {"PolicyDeniedError", "AuthenticationError",
                         "RateLimitError", "MeshGuardError"}
    THEN Returns(PolicyDecision(FALSE, action, "deny", None, None, None,
                                cl.trace_id))
    ELSE out

\* The `except PolicyDeniedError` handler of check.
CheckExcept(cl, action, out) ==
    IF out.err.type = "PolicyDeniedError"
    THEN Returns(PolicyDecision(FALSE, action, "deny", out.err.policy,
                                out.err.rule, out.err.reason, cl.trace_id))
    ELSE out

\* Faulty variant of Check: no status branch of its own, so a 403 takes the
\* way through _handle_response and the except handler.
CheckWithoutBranch(cl, action, resource, ans) ==
    IF ans.kind = "exception"
    THEN Raises(TransportError)
    ELSE LET h == HandleResponse(ans)
         IN  IF h.kind = "raise"
             THEN CheckExcept(cl, action, h)
             ELSE Returns(PolicyDecision(TRUE, action, "allow",
                                         Get(h.data, "policy", None),
                                         None, None, cl.trace_id))

\* Faulty variant of Check: the 403 branch is a copy of the allow branch with
\* only the allowed flag changed.
CheckMislabelled(cl, action, resource, ans) ==
    IF ans.kind = "exception"
    THEN Raises(TransportError)
    ELSE IF ans.status_code = 403
    THEN LET p == ParseBody(ans.body)
         IN  IF ~p.ok
             THEN Raises(JSONDecodeError)
             ELSE Returns(PolicyDecision(FALSE, action, "allow",
                                         Get(p.data, "policy", None),
                                         Get(p.data, "rule", None),
                                         Get(p.data, "message", None),
                                         cl.trace_id))
    ELSE LET h == HandleResponse(ans)
         IN  IF h.kind = "raise"
             THEN CheckExcept(cl, action, h)
             ELSE Returns(PolicyDecision(TRUE, action, "allow",
                                         Get(h.data, "policy", None),
                                         None, None, cl.trace_id))

\* check(action, resource) from the point where the transport answers.
Check(cl, action, resource, ans) ==
    IF ans.kind = "exception"
    THEN Raises(TransportError)
    ELSE IF ans.status_code = 403
    THEN LET p == ParseBody(ans.body)
         IN  IF ~p.ok
             THEN Raises(JSONDecodeError)
             ELSE Returns(PolicyDecision(FALSE, action, "deny",
                                         Get(p.data, "policy", None),
                                         Get(p.data, "rule", None),
                                         Get(p.data, "message", None),
                                         cl.trace_id))
    ELSE LET h == HandleResponse(ans)
         IN  IF h.kind = "raise"
             THEN CheckExcept(cl, action, h)
             ELSE Returns(PolicyDecision(TRUE, action, "allow",
                                         Get(h.data, "policy", None),
                                         None, None, cl.trace_id))

\* Faulty variant of EnforceBranch: the denial is raised without the reason
\* of the Decision.
EnforceBranchNoReason(action, checked) ==
    IF checked.kind = "return" /\ ~checked.decision.allowed
    THEN Raises(PolicyDeniedError(action, checked.decision.policy,
                                  checked.decision.rule, None))
    ELSE checked

\* Faulty variant of EnforceBranch: the deny Decision is returned, not raised.
EnforceBranchNoRaise(action, checked) == checked

\* enforce(action, resource), given what its call of check came to.
EnforceBranch(action, checked) ==
    IF checked.kind = "return" /\ ~checked.decision.allowed
    THEN Raises(PolicyDeniedError(action, checked.decision.policy,
                                  checked.decision.rule,
                                  checked.decision.reason))
    ELSE checked

Enforce(cl, action, resource, ans) ==
    EnforceBranch(action, Check(cl, action, resource, ans))

\* dict.update: the entries of other replace those of d.
Update(d, other) == other @@ d

\* str.lstrip("/") on a path given as its sequence of separators and names.
RECURSIVE Lstrip(_)
Lstrip(path) ==
    IF path # <<>> /\ Head(path) = "/" THEN Lstrip(Tail(path)) ELSE path

\* Faulty variant of ProxyRequest: the caller's headers are merged last and
\* replace the client's.
ProxyRequestCallerWins(cl, method, path, action, headers) ==
    [method |-> method,
     url |-> <<cl.gateway_url, "/proxy/", Lstrip(path)>>,
     headers |-> Update(SetItem(Headers(cl, TRUE), "X-MeshGuard-Action", action),
                        headers)]

\* The request request(method, path, action, headers=...) sends.
ProxyRequest(cl, method, path, action, headers) ==
    [method |-> method,
     url |-> <<cl.gateway_url, "/proxy/", Lstrip(path)>>,
     headers |-> SetItem(Update(headers, Headers(cl, TRUE)),
                         "X-MeshGuard-Action", action)]

\* The request health() sends: the URL and nothing else.
HealthRequest(cl) ==
    [method |-> "GET", url |-> <<cl.gateway_url, "/health">>,
     headers |-> EmptyDict]

\* Faulty variant of AdminHeaders: the admin token is added to the headers
\* of _headers(), bearer credential included.
AdminHeadersWithBearer(cl) ==
    SetItem(Headers(cl, TRUE), "X-Admin-Token", cl.admin_token)

\* _admin_headers(), for a client that has an admin token.
AdminHeaders(cl) ==
    SetItem(SetItem(EmptyDict, "X-Admin-Token", cl.admin_token),
            "X-MeshGuard-Trace-ID", cl.trace_id)

\* The request create_agent(name) sends.
CreateAgentRequest(cl, name) ==
    [method |-> "POST", url |-> <<cl.gateway_url, "/admin/agents">>,
     headers |-> AdminHeaders(cl),
     json |-> [name |-> name, trustTier |-> "verified", tags |-> <<>>]]


\* The requests list_agents(), revoke_agent(agent_id), list_policies() and
\* get_audit_log(limit=50, decision=decision) send.
ListAgentsRequest(cl) ==
    [method |-> "GET", url |-> <<cl.gateway_url, "/admin/agents">>,
     headers |-> AdminHeaders(cl)]

RevokeAgentRequest(cl, agent_id) ==
    [method |-> "DELETE", url |-> <<cl.gateway_url, "/admin/agents/", agent_id>>,
     headers |-> AdminHeaders(cl)]

ListPoliciesRequest(cl) ==
    [method |-> "GET", url |-> <<cl.gateway_url, "/admin/policies">>,
     headers |-> AdminHeaders(cl)]

GetAuditLogRequest(cl, decision) ==
    LET params == SetItem(EmptyDict, "limit", 50)
    IN  [method |-> "GET", url |-> <<cl.gateway_url, "/admin/audit">>,
         headers |-> AdminHeaders(cl),
         params |-> IF Truthy(decision)
                    THEN SetItem(params, "decision", decision)
                    ELSE params]

(***************************************************************************)
(* langchain.py: GovernedToolkit                                           *)
(***************************************************************************)

\* getattr(tool, "name", tool.__class__.__name__); a tool is the mapping of
\* its attributes, with "class" for the name of its class.
ToolName(tool) == Get(tool, "name", tool["class"])

\* GovernedTool.__init__
GovernedTool(tool, action, cl, on_deny) ==
    [tool |-> tool, action |-> action, client |-> cl, on_deny |-> on_deny,
     name |-> ToolName(tool)]

\* action_map=None, the default of GovernedToolkit.__init__.
NoActionMap == [none |-> TRUE]

\* GovernedToolkit.__init__ with a client given; `action_map or {}`.
GovernedToolkit(tools, cl, action_map, default_action, on_deny) ==
    [tools |-> tools, client |-> cl,
     action_map |-> IF action_map \in {NoActionMap, EmptyDict}
                    THEN EmptyDict ELSE action_map,
     default_action |-> default_action, on_deny |-> on_deny]

\* Faulty variant of GetAction: the map is searched for the name of the
\* tool's class, whether or not the tool has a name.
GetActionByClass(toolkit, tool) ==
    Get(toolkit.action_map, tool["class"], toolkit.default_action)

\* GovernedToolkit.get_action(tool)
GetAction(toolkit, tool) ==
    Get(toolkit.action_map, ToolName(tool), toolkit.default_action)

\* GovernedToolkit.get_tools()
GetTools(toolkit) ==
    [i \in 1..Len(toolkit.tools) |->
        GovernedTool(toolkit.tools[i], GetAction(toolkit, toolkit.tools[i]),
                     toolkit.client, toolkit.on_deny)]

(***************************************************************************)
(* State                                                                   *)
(***************************************************************************)

VARIABLES
    client,     \* the client's configuration, fixed at construction
    pc,         \* per context: "idle", "awaiting", "guarded" or "done"
    call,       \* per context: the operation in progress and its inputs
    sent,       \* per context: the requests this call handed to the transport
    answer,     \* per context: what the transport answered to this call
    checked,    \* per context: what this call's check came to
    started,    \* per context: the invocations of guarded code by this call
    finished,   \* per context: what the guarded code came to
    denied,     \* per context: the invocations of on_deny by this call
    result      \* per context: what the call returned or raised to its caller

vars ==
    <<client, pc, call, sent, answer, checked, started, finished, denied, result>>

NoCall ==
    [op |-> "none", action |-> None, resource |-> None, args |-> None,
     on_deny |-> FALSE, func |-> None]

\* str(uuid.uuid4())
GeneratedTraceId == "uuid4-1"

\* A URL is the sequence of its pieces, "/" being a piece of its own; the
\* empty sequence is the falsy URL argument (None or "").
NoUrl == <<>>

\* str.rstrip("/")
RECURSIVE Rstrip(_)
Rstrip(url) ==
    IF url # <<>> /\ url[Len(url)] = "/"
    THEN Rstrip(SubSeq(url, 1, Len(url) - 1)) ELSE url

\* The last operand of the `or` chain of __init__ for the gateway URL.
DefaultGatewayUrl == <<"http://localhost:3100">>

\* MeshGuardClient.__init__ in the environment env, a dict of the
\* MESHGUARD_* variables that are set.
MeshGuardClient(env, gateway_url, agent_token, admin_token, trace_id) ==
    [gateway_url |->
         Rstrip(IF gateway_url # NoUrl THEN gateway_url
                ELSE IF Get(env, "MESHGUARD_GATEWAY_URL", NoUrl) # NoUrl
                THEN env["MESHGUARD_GATEWAY_URL"]
                ELSE DefaultGatewayUrl),
     agent_token |-> IF Truthy(agent_token) THEN agent_token
                     ELSE Get(env, "MESHGUARD_AGENT_TOKEN", None),
     admin_token |-> IF Truthy(admin_token) THEN admin_token
                     ELSE Get(env, "MESHGUARD_ADMIN_TOKEN", None),
     trace_id |-> IF Truthy(trace_id) THEN trace_id ELSE GeneratedTraceId]

\* MeshGuardClient.__init__ in an environment without MESHGUARD_* variables.
NewClient(gateway_url, agent_token, admin_token, trace_id) ==
    MeshGuardClient(EmptyDict, gateway_url, agent_token, admin_token, trace_id)

\* The constructor arguments the clients under study were built with.
Constructions ==
    {<<None, None, None>>,
     <<"test-agent-token", None, "trace-1">>,
     <<"", "test-admin-token", "trace-1">>,
     <<"test-agent-token", "test-admin-token", "">>}

Clients ==
    {NewClient(<<"https://test.meshguard.app">>, k[1], k[2], k[3])
     : k \in Constructions}

\* Inputs of the proxy and admin operations.
Methods == {"GET", "POST"}
Paths == {<<"api", "/", "contacts">>, <<"/", "/", "api", "/", "contacts">>}
CallerHeaders ==
    {EmptyDict,
     SetItem(EmptyDict, "X-MeshGuard-Trace-ID", "caller-trace"),
     SetItem(EmptyDict, "X-Custom-Header", "custom-value"),
     ("X-Custom-Header" :> "custom-value")
         @@ ("X-MeshGuard-Action" :> "caller:action")
         @@ ("X-MeshGuard-Trace-ID" :> "caller-trace")
         @@ ("Authorization" :> <<"Bearer", "caller-token">>)}
AgentNames == {"agent-1"}
AgentIds == {"agent-123"}

\* Inputs of a construction: the environment and the gateway_url argument.
Environments ==
    {EmptyDict,
     ("MESHGUARD_GATEWAY_URL" :> <<"https://env.meshguard.app", "/">>)
         @@ ("MESHGUARD_AGENT_TOKEN" :> "env-agent-token")
         @@ ("MESHGUARD_ADMIN_TOKEN" :> "env-admin-token")}
GatewayArgs ==
    {NoUrl, <<"https://arg.meshguard.app">>, <<"https://arg.meshguard.app", "/">>}
AgentTokenArgs == {None, "test-agent-token"}

\* Inputs of a toolkit: tools with and without a name attribute, action
\* maps keyed by tool name, callbacks.
MaxTools == 2
ToolSet ==
    {[name |-> "serpapi", class |-> "SerpAPIWrapper"], [class |-> "Calculator"]}
ToolLists == UNION {[1..n -> ToolSet] : n \in 0..MaxTools}
ActionMaps ==
    {NoActionMap,
     "serpapi" :> "read:web_search",
     ("serpapi" :> "read:web_search") @@ ("Calculator" :> "execute:math")}
DefaultActions == {"execute:tool"}
DenyCallbacks == {None, "handler-1"}
AuditDecisions == {None, "deny"}

Init ==
    /\ client \in Clients
    /\ pc = [c \in Ctxs |-> "idle"]
    /\ call = [c \in Ctxs |-> NoCall]
    /\ sent = [c \in Ctxs |-> <<>>]
    /\ answer = [c \in Ctxs |-> NoResponse]
    /\ checked = [c \in Ctxs |-> Pending]
    /\ started = [c \in Ctxs |-> <<>>]
    /\ finished = [c \in Ctxs |-> Pending]
    /\ denied = [c \in Ctxs |-> <<>>]
    /\ result = [c \in Ctxs |-> Pending]

(***************************************************************************)
(* A call up to the blocking round trip                                    *)
(***************************************************************************)

\* Faulty variant of SendCheck: the request is handed to the transport twice.
SendCheckTwice(c, inputs) ==
    /\ call' = [call EXCEPT ![c] = inputs]
    /\ sent' = [sent EXCEPT ![c] =
                   Append(Append(@, CheckRequest(client, inputs.action,
                                                 inputs.resource)),
                          CheckRequest(client, inputs.action, inputs.resource))]
    /\ pc' = [pc EXCEPT ![c] = "awaiting"]
    /\ UNCHANGED <<client, answer, checked, started, finished, denied, result>>

\* Faulty variant of SendCheck: the headers are built in one dict kept on the
\* client, so a call that starts while another is in flight sends that
\* other call's action.
SendCheckSharedHeaders(c, inputs) ==
    LET others == {o \in Ctxs \ {c} : pc[o] = "awaiting"}
        action == IF others = {} THEN inputs.action
                  ELSE call[CHOOSE o \in others : TRUE].action
    IN  /\ call' = [call EXCEPT ![c] = inputs]
        /\ sent' = [sent EXCEPT ![c] =
                       Append(@, CheckRequest(client, action, inputs.resource))]
        /\ pc' = [pc EXCEPT ![c] = "awaiting"]
        /\ UNCHANGED <<client, answer, checked, started, finished, denied, result>>

\* Lines 146-155 of check: build the headers and hand the GET to the
\* transport.  Every operation below reaches the authority through it.
SendCheck(c, inputs) ==
    /\ call' = [call EXCEPT ![c] = inputs]
    /\ sent' = [sent EXCEPT ![c] =
                   Append(@, CheckRequest(client, inputs.action, inputs.resource))]
    /\ pc' = [pc EXCEPT ![c] = "awaiting"]
    /\ UNCHANGED <<client, answer, checked, started, finished, denied, result>>

CallCheck(c, action, resource) ==
    /\ pc[c] = "idle"
    /\ SendCheck(c, [op |-> "check", action |-> action, resource |-> resource,
                     args |-> None, on_deny |-> FALSE, func |-> None])

CallEnforce(c, action, resource) ==
    /\ pc[c] = "idle"
    /\ SendCheck(c, [op |-> "enforce", action |-> action, resource |-> resource,
                     args |-> None, on_deny |-> FALSE, func |-> None])

\* `with client.govern(action, resource) as decision:` up to __enter__'s
\* call of enforce.
CallGovern(c, action, resource) ==
    /\ pc[c] = "idle"
    /\ SendCheck(c, [op |-> "govern", action |-> action, resource |-> resource,
                     args |-> None, on_deny |-> FALSE, func |-> None])

\* GovernedTool(tool, action, client, on_deny).run(args): enforce(self.action)
CallRun(c, action, args, on_deny) ==
    /\ pc[c] = "idle"
    /\ SendCheck(c, [op |-> "run", action |-> action, resource |-> None,
                     args |-> args, on_deny |-> on_deny, func |-> None])

\* Faulty variant of CallArun: the coroutine of tool.arun is scheduled
\* together with the enforcement round trip, not after it.
CallArunEager(c, action, args, on_deny) ==
    /\ pc[c] = "idle"
    /\ call' = [call EXCEPT ![c] =
                   [op |-> "arun", action |-> action, resource |-> None,
                    args |-> args, on_deny |-> on_deny, func |-> None]]
    /\ sent' = [sent EXCEPT ![c] = Append(@, CheckRequest(client, action, None))]
    /\ started' = [started EXCEPT ![c] =
                      Append(@, [target |-> "tool.arun", args |-> args,
                                 decision |-> NoDecision])]
    /\ pc' = [pc EXCEPT ![c] = "awaiting"]
    /\ UNCHANGED <<client, answer, checked, finished, denied, result>>

\* GovernedTool(...).arun(args): enforce(self.action)
CallArun(c, action, args, on_deny) ==
    /\ pc[c] = "idle"
    /\ SendCheck(c, [op |-> "arun", action |-> action, resource |-> None,
                     args |-> args, on_deny |-> on_deny, func |-> None])

\* A call of a function decorated with governed_tool(action, client, on_deny).
CallWrapper(c, action, args, on_deny, func) ==
    /\ pc[c] = "idle"
    /\ SendCheck(c, [op |-> "wrapper", action |-> action, resource |-> None,
                     args |-> args, on_deny |-> on_deny, func |-> func])

\* request(method, path, action, headers=headers) up to the round trip.
CallRequest(c, method, path, action, headers) ==
    /\ pc[c] = "idle"
    /\ call' = [call EXCEPT ![c] =
                   [op |-> "request", action |-> action, method |-> method,
                    path |-> path, headers |-> headers]]
    /\ sent' = [sent EXCEPT ![c] =
                   Append(@, ProxyRequest(client, method, path, action, headers))]
    /\ pc' = [pc EXCEPT ![c] = "awaiting"]
    /\ UNCHANGED <<client, answer, checked, started, finished, denied, result>>

\* health() up to the round trip.
CallHealth(c) ==
    /\ pc[c] = "idle"
    /\ call' = [call EXCEPT ![c] = [op |-> "health", action |-> None]]
    /\ sent' = [sent EXCEPT ![c] = Append(@, HealthRequest(client))]
    /\ pc' = [pc EXCEPT ![c] = "awaiting"]
    /\ UNCHANGED <<client, answer, checked, started, finished, denied, result>>

\* create_agent(name) up to the round trip; _admin_headers raises before
\* any request when the client has no admin token.
CallCreateAgent(c, name) ==
    /\ pc[c] = "idle"
    /\ call' = [call EXCEPT ![c] =
                   [op |-> "create_agent", action |-> None, name |-> name]]
    /\ IF Truthy(client.admin_token)
       THEN /\ sent' = [sent EXCEPT ![c] =
                           Append(@, CreateAgentRequest(client, name))]
            /\ pc' = [pc EXCEPT ![c] = "awaiting"]
            /\ UNCHANGED result
       ELSE /\ result' = [result EXCEPT ![c] =
                   Raises(AuthenticationError(
                              "Admin token required for this operation"))]
            /\ pc' = [pc EXCEPT ![c] = "done"]
            /\ UNCHANGED sent
    /\ UNCHANGED <<client, answer, checked, started, finished, denied>>

\* An admin operation up to the round trip: _admin_headers() raises before
\* any request when the client has no admin token; otherwise the request
\* is handed to the transport.
SendAdmin(c, inputs, request) ==
    /\ call' = [call EXCEPT ![c] = inputs]
    /\ IF Truthy(client.admin_token)
       THEN /\ sent' = [sent EXCEPT ![c] = Append(@, request)]
            /\ pc' = [pc EXCEPT ![c] = "awaiting"]
            /\ UNCHANGED result
       ELSE /\ result' = [result EXCEPT ![c] =
                   Raises(AuthenticationError(
                              "Admin token required for this operation"))]
            /\ pc' = [pc EXCEPT ![c] = "done"]
            /\ UNCHANGED sent
    /\ UNCHANGED <<client, answer, checked, started, finished, denied>>

CallListAgents(c) ==
    /\ pc[c] = "idle"
    /\ SendAdmin(c, [op |-> "list_agents", action |-> None],
                 IF Truthy(client.admin_token)
                 THEN ListAgentsRequest(client) ELSE None)

CallRevokeAgent(c, agent_id) ==
    /\ pc[c] = "idle"
    /\ SendAdmin(c, [op |-> "revoke_agent", action |-> None,
                     agent_id |-> agent_id],
                 IF Truthy(client.admin_token)
                 THEN RevokeAgentRequest(client, agent_id) ELSE None)

CallListPolicies(c) ==
    /\ pc[c] = "idle"
    /\ SendAdmin(c, [op |-> "list_policies", action |-> None],
                 IF Truthy(client.admin_token)
                 THEN ListPoliciesRequest(client) ELSE None)

CallGetAuditLog(c, decision) ==
    /\ pc[c] = "idle"
    /\ SendAdmin(c, [op |-> "get_audit_log", action |-> None,
                     decision |-> decision],
                 IF Truthy(client.admin_token)
                 THEN GetAuditLogRequest(client, decision) ELSE None)

\* MeshGuardClient(gateway_url=..., agent_token=...) in the environment env:
\* the context builds a client of its own; no round trip.
CallNewClient(c, env, gateway_url, agent_token) ==
    /\ pc[c] = "idle"
    /\ call' = [call EXCEPT ![c] =
                   [op |-> "__init__", action |-> None, env |-> env,
                    gateway_url |-> gateway_url, agent_token |-> agent_token]]
    /\ result' = [result EXCEPT ![c] =
                     Value(MeshGuardClient(env, gateway_url, agent_token,
                                           None, None))]
    /\ pc' = [pc EXCEPT ![c] = "done"]
    /\ UNCHANGED <<client, sent, answer, checked, started, finished, denied>>

\* GovernedToolkit(tools, client, action_map, default_action,
\* on_deny).get_tools(): no round trip.
CallGetTools(c, tools, action_map, default_action, on_deny) ==
    /\ pc[c] = "idle"
    /\ call' = [call EXCEPT ![c] =
                   [op |-> "get_tools", action |-> None, tools |-> tools,
                    action_map |-> action_map,
                    default_action |-> default_action, on_deny |-> on_deny]]
    /\ result' = [result EXCEPT ![c] =
                     Value(GetTools(GovernedToolkit(tools, client, action_map,
                                                    default_action, on_deny)))]
    /\ pc' = [pc EXCEPT ![c] = "done"]
    /\ UNCHANGED <<client, sent, answer, checked, started, finished, denied>>

(***************************************************************************)
(* The transport answers: the rest of each handler                         *)
(***************************************************************************)

Awaiting(c, op) == pc[c] = "awaiting" /\ call[c].op = op

\* Faulty variant of CheckResolves: the client takes a new trace id with
\* every check it resolves.
CheckResolvesFreshTrace(c, ans) ==
    /\ Awaiting(c, "check")
    /\ client' = [client EXCEPT !.trace_id = "uuid4-2"]
    /\ answer' = [answer EXCEPT ![c] = ans]
    /\ checked' = [checked EXCEPT ![c] =
                      Check(client', call[c].action, call[c].resource, ans)]
    /\ result' = [result EXCEPT ![c] = checked'[c]]
    /\ pc' = [pc EXCEPT ![c] = "done"]
    /\ UNCHANGED <<call, sent, started, finished, denied>>

\* Faulty variant of CheckResolves: a 429 or a 5xx answer is retried once
\* before the error is raised.
CheckResolvesRetrying(c, ans) ==
    /\ Awaiting(c, "check")
    /\ IF ans.kind = "response" /\ ans.status_code \in {429, 500}
          /\ Len(sent[c]) < 2
       THEN /\ sent' = [sent EXCEPT ![c] =
                           Append(@, CheckRequest(client, call[c].action,
                                                  call[c].resource))]
            /\ UNCHANGED <<answer, checked, result, pc>>
       ELSE /\ answer' = [answer EXCEPT ![c] = ans]
            /\ checked' = [checked EXCEPT ![c] =
                              Check(client, call[c].action, call[c].resource, ans)]
            /\ result' = [result EXCEPT ![c] = checked'[c]]
            /\ pc' = [pc EXCEPT ![c] = "done"]
            /\ UNCHANGED sent
    /\ UNCHANGED <<client, call, started, finished, denied>>

\* check returns or raises.
CheckResolves(c, ans) ==
    /\ Awaiting(c, "check")
    /\ answer' = [answer EXCEPT ![c] = ans]
    /\ checked' = [checked EXCEPT ![c] =
                      Check(client, call[c].action, call[c].resource, ans)]
    /\ result' = [result EXCEPT ![c] = checked'[c]]
    /\ pc' = [pc EXCEPT ![c] = "done"]
    /\ UNCHANGED <<client, call, sent, started, finished, denied>>

\* enforce returns or raises.
EnforceResolves(c, ans) ==
    /\ Awaiting(c, "enforce")
    /\ answer' = [answer EXCEPT ![c] = ans]
    /\ checked' = [checked EXCEPT ![c] =
                      Check(client, call[c].action, call[c].resource, ans)]
    /\ result' = [result EXCEPT ![c] =
                     Enforce(client, call[c].action, call[c].resource, ans)]
    /\ pc' = [pc EXCEPT ![c] = "done"]
    /\ UNCHANGED <<client, call, sent, started, finished, denied>>

\* Faulty variant of GovernEnters: __enter__ calls check, not enforce, so
\* the body begins with whatever Decision check returned.
GovernEntersOnCheck(c, ans) ==
    /\ Awaiting(c, "govern")
    /\ answer' = [answer EXCEPT ![c] = ans]
    /\ checked' = [checked EXCEPT ![c] =
                      Check(client, call[c].action, call[c].resource, ans)]
    /\ LET e == Check(client, call[c].action, call[c].resource, ans)
       IN  IF e.kind = "return"
           THEN /\ started' = [started EXCEPT ![c] =
                       Append(@, [target |-> "body", args |-> None,
                                  decision |-> e.decision])]
                /\ pc' = [pc EXCEPT ![c] = "guarded"]
                /\ UNCHANGED result
           ELSE /\ result' = [result EXCEPT ![c] = e]
                /\ pc' = [pc EXCEPT ![c] = "done"]
                /\ UNCHANGED started
    /\ UNCHANGED <<client, call, sent, finished, denied>>

\* GovernedContext.__enter__: the scope body begins with the Decision, or
\* the exception of enforce leaves the with statement.
GovernEnters(c, ans) ==
    /\ Awaiting(c, "govern")
    /\ answer' = [answer EXCEPT ![c] = ans]
    /\ checked' = [checked EXCEPT ![c] =
                      Check(client, call[c].action, call[c].resource, ans)]
    /\ LET e == Enforce(client, call[c].action, call[c].resource, ans)
       IN  IF e.kind = "return"
           THEN /\ started' = [started EXCEPT ![c] =
                       Append(@, [target |-> "body", args |-> None,
                                  decision |-> e.decision])]
                /\ pc' = [pc EXCEPT ![c] = "guarded"]
                /\ UNCHANGED result
           ELSE /\ result' = [result EXCEPT ![c] = e]
                /\ pc' = [pc EXCEPT ![c] = "done"]
                /\ UNCHANGED started
    /\ UNCHANGED <<client, call, sent, finished, denied>>

\* Faulty variant of DenyHandler: on_deny is called and the denial is raised
\* all the same.
DenyHandlerStillRaises(c, out, kw, dv) ==
    /\ result' = [result EXCEPT ![c] = out]
    /\ IF out.kind = "raise" /\ out.err.type = "PolicyDeniedError"
          /\ call[c].on_deny
       THEN denied' = [denied EXCEPT ![c] =
                Append(@, [err |-> out.err, args |-> call[c].args,
                           decision |-> kw, returned |-> dv])]
       ELSE UNCHANGED denied

\* Faulty variant of DenyHandler: the except clause catches every exception.
DenyHandlerCatchesAll(c, out, kw, dv) ==
    IF out.kind = "raise" /\ call[c].on_deny
    THEN /\ denied' = [denied EXCEPT ![c] =
                Append(@, [err |-> out.err, args |-> call[c].args,
                           decision |-> kw, returned |-> dv])]
         /\ result' = [result EXCEPT ![c] = Value(dv)]
    ELSE /\ result' = [result EXCEPT ![c] = out]
         /\ UNCHANGED denied

\* `except PolicyDeniedError as e: if on_deny: return on_deny(e, *args,
\* **kwargs); raise` around an outcome of the try block; dv is what the
\* callback returns, kw the decision the wrapper put into kwargs.
DenyHandler(c, out, kw, dv) ==
    IF out.kind = "raise" /\ out.err.type = "PolicyDeniedError" /\ call[c].on_deny
    THEN /\ denied' = [denied EXCEPT ![c] =
                Append(@, [err |-> out.err, args |-> call[c].args,
                           decision |-> kw, returned |-> dv])]
         /\ result' = [result EXCEPT ![c] = Value(dv)]
    ELSE /\ result' = [result EXCEPT ![c] = out]
         /\ UNCHANGED denied

\* GovernedTool.run and arun from the answer to the start of the tool.
ToolGate(c, ans, target, dv) ==
    /\ answer' = [answer EXCEPT ![c] = ans]
    /\ checked' = [checked EXCEPT ![c] =
                      Check(client, call[c].action, None, ans)]
    /\ LET e == Enforce(client, call[c].action, None, ans)
       IN  IF e.kind = "return"
           THEN /\ started' = [started EXCEPT ![c] =
                       Append(@, [target |-> target, args |-> call[c].args,
                                  decision |-> NoDecision])]
                /\ pc' = [pc EXCEPT ![c] = "guarded"]
                /\ UNCHANGED <<denied, result>>
           ELSE /\ DenyHandler(c, e, NoDecision, dv)
                /\ pc' = [pc EXCEPT ![c] = "done"]
                /\ UNCHANGED started
    /\ UNCHANGED <<client, call, sent, finished>>

RunEnforces(c, ans, dv) ==
    /\ Awaiting(c, "run")
    /\ ToolGate(c, ans, "tool.run", dv)

ArunEnforces(c, ans, dv) ==
    /\ Awaiting(c, "arun")
    /\ ToolGate(c, ans, "tool.arun", dv)

\* `"meshguard_decision" in func.__code__.co_varnames`
InCoVarnames(func) == func \in {"param", "local"}

\* Whether func(*args, meshguard_decision=...) binds.
AcceptsDecision(func) == func = "param"

\* The wrapper of governed_tool from the answer to the start of func.
WrapperEnforces(c, ans, dv) ==
    /\ Awaiting(c, "wrapper")
    /\ answer' = [answer EXCEPT ![c] = ans]
    /\ checked' = [checked EXCEPT ![c] =
                      Check(client, call[c].action, None, ans)]
    /\ LET e == Enforce(client, call[c].action, None, ans)
           kw == IF e.kind = "return" /\ InCoVarnames(call[c].func)
                 THEN e.decision ELSE NoDecision
       IN  IF e.kind = "return"
           THEN IF kw # NoDecision /\ ~AcceptsDecision(call[c].func)
                THEN /\ result' = [result EXCEPT ![c] = Raises(TypeError)]
                     /\ pc' = [pc EXCEPT ![c] = "done"]
                     /\ UNCHANGED <<started, denied>>
                ELSE /\ started' = [started EXCEPT ![c] =
                            Append(@, [target |-> "func", args |-> call[c].args,
                                       decision |-> kw])]
                     /\ pc' = [pc EXCEPT ![c] = "guarded"]
                     /\ UNCHANGED <<denied, result>>
           ELSE /\ DenyHandler(c, e, NoDecision, dv)
                /\ pc' = [pc EXCEPT ![c] = "done"]
                /\ UNCHANGED started
    /\ UNCHANGED <<client, call, sent, finished>>

\* The round trip followed by _handle_response(response): the parsed body,
\* or the exception of the transport or of _handle_response.
Resolved(ans) ==
    IF ans.kind = "exception" THEN Raises(TransportError) ELSE HandleResponse(ans)

\* request: _handle_response(response), then the raw response is returned.
RequestResolves(c, ans) ==
    /\ Awaiting(c, "request")
    /\ answer' = [answer EXCEPT ![c] = ans]
    /\ result' = [result EXCEPT ![c] =
                     IF Resolved(ans).kind = "raise"
                     THEN Resolved(ans) ELSE Value(ans)]
    /\ pc' = [pc EXCEPT ![c] = "done"]
    /\ UNCHANGED <<client, call, sent, checked, started, finished, denied>>

\* create_agent: `return self._handle_response(response)`.
CreateAgentResolves(c, ans) ==
    /\ Awaiting(c, "create_agent")
    /\ answer' = [answer EXCEPT ![c] = ans]
    /\ result' = [result EXCEPT ![c] =
                     IF Resolved(ans).kind = "raise"
                     THEN Resolved(ans) ELSE Value(Resolved(ans).data)]
    /\ pc' = [pc EXCEPT ![c] = "done"]
    /\ UNCHANGED <<client, call, sent, checked, started, finished, denied>>

\* The rest of an admin operation: the exception of _handle_response, or
\* what the operation makes of the parsed body.
AdminReturns(c, ans, value) ==
    /\ answer' = [answer EXCEPT ![c] = ans]
    /\ result' = [result EXCEPT ![c] =
                     IF Resolved(ans).kind = "raise"
                     THEN Resolved(ans) ELSE Value(value)]
    /\ pc' = [pc EXCEPT ![c] = "done"]
    /\ UNCHANGED <<client, call, sent, checked, started, finished, denied>>

\* list_agents: the Agents built from data.get("agents", []).
ListAgentsResolves(c, ans) ==
    /\ Awaiting(c, "list_agents")
    /\ AdminReturns(c, ans, IF Resolved(ans).kind = "data"
                            THEN Get(Resolved(ans).data, "agents", <<>>)
                            ELSE None)

\* revoke_agent returns None.
RevokeAgentResolves(c, ans) ==
    /\ Awaiting(c, "revoke_agent")
    /\ AdminReturns(c, ans, None)

\* list_policies: data.get("policies", []).
ListPoliciesResolves(c, ans) ==
    /\ Awaiting(c, "list_policies")
    /\ AdminReturns(c, ans, IF Resolved(ans).kind = "data"
                            THEN Get(Resolved(ans).data, "policies", <<>>)
                            ELSE None)

\* get_audit_log: data.get("entries", []).
GetAuditLogResolves(c, ans) ==
    /\ Awaiting(c, "get_audit_log")
    /\ AdminReturns(c, ans, IF Resolved(ans).kind = "data"
                            THEN Get(Resolved(ans).data, "entries", <<>>)
                            ELSE None)

\* health: `return response.json()`, whatever the status, with no guard for
\* an empty body.
HealthResolves(c, ans) ==
    /\ Awaiting(c, "health")
    /\ answer' = [answer EXCEPT ![c] = ans]
    /\ result' = [result EXCEPT ![c] =
                     IF ans.kind = "exception"
                     THEN Raises(TransportError)
                     ELSE IF ans.body.kind = "object"
                     THEN Value(ans.body.json)
                     ELSE Raises(JSONDecodeError)]
    /\ pc' = [pc EXCEPT ![c] = "done"]
    /\ UNCHANGED <<client, call, sent, checked, started, finished, denied>>

(***************************************************************************)
(* The guarded code finishes                                               *)
(***************************************************************************)

\* What a tool, a wrapped function or a scope body may come to.  A tool may
\* itself be governed, so a PolicyDeniedError may leave it.
InnerDenial == PolicyDeniedError("inner:action", None, None, None)
GuardedOutcomes ==
    {Value(v) : v \in ToolResults} \cup {Raises(InnerDenial), Raises(ToolError)}

InGuarded(c, op) == pc[c] = "guarded" /\ call[c].op = op

\* The rest of run, arun and the wrapper: the tool's result is returned, or
\* its exception meets the except clause.
GuardedReturns(c, out, dv) ==
    /\ finished' = [finished EXCEPT ![c] = out]
    /\ DenyHandler(c, out, started[c][Len(started[c])].decision, dv)
    /\ pc' = [pc EXCEPT ![c] = "done"]
    /\ UNCHANGED <<client, call, sent, answer, checked, started>>

RunReturns(c, out, dv) ==
    /\ InGuarded(c, "run")
    /\ GuardedReturns(c, out, dv)

ArunReturns(c, out, dv) ==
    /\ InGuarded(c, "arun")
    /\ GuardedReturns(c, out, dv)

WrapperReturns(c, out, dv) ==
    /\ InGuarded(c, "wrapper")
    /\ GuardedReturns(c, out, dv)

\* GovernedContext.__exit__ does nothing and returns None: the body's
\* exception, if any, leaves the with statement.
GovernExits(c, out) ==
    /\ InGuarded(c, "govern")
    /\ finished' = [finished EXCEPT ![c] = out]
    /\ result' = [result EXCEPT ![c] =
                     IF out.kind = "raise" THEN out ELSE Value(None)]
    /\ pc' = [pc EXCEPT ![c] = "done"]
    /\ UNCHANGED <<client, call, sent, answer, checked, started, denied>>

\* The caller has the outcome; the context is free for its next call.
CallerResumes(c) ==
    /\ pc[c] = "done"
    /\ pc' = [pc EXCEPT ![c] = "idle"]
    /\ call' = [call EXCEPT ![c] = NoCall]
    /\ sent' = [sent EXCEPT ![c] = <<>>]
    /\ answer' = [answer EXCEPT ![c] = NoResponse]
    /\ checked' = [checked EXCEPT ![c] = Pending]
    /\ started' = [started EXCEPT ![c] = <<>>]
    /\ finished' = [finished EXCEPT ![c] = Pending]
    /\ denied' = [denied EXCEPT ![c] = <<>>]
    /\ result' = [result EXCEPT ![c] = Pending]
    /\ UNCHANGED client

(***************************************************************************)
(* Specification                                                           *)
(***************************************************************************)

Next ==
    \E c \in SeqCtxs :
        \/ \E a \in ActionIds, r \in Resources : CallCheck(c, a, r)
        \/ \E a \in ActionIds, r \in Resources : CallEnforce(c, a, r)
        \/ \E a \in ActionIds, r \in Resources : CallGovern(c, a, r)
        \/ \E a \in ActionIds, x \in ArgVals, d \in BOOLEAN : CallRun(c, a, x, d)
        \/ \E a \in ActionIds, x \in ArgVals, d \in BOOLEAN : CallArun(c, a, x, d)
        \/ \E a \in ActionIds, x \in ArgVals, d \in BOOLEAN, f \in FuncKinds :
               CallWrapper(c, a, x, d, f)
        \/ \E m \in Methods, p \in Paths, a \in ActionIds, h \in CallerHeaders :
               CallRequest(c, m, p, a, h)
        \/ CallHealth(c)
        \/ \E n \in AgentNames : CallCreateAgent(c, n)
        \/ \E ans \in Responses : RequestResolves(c, ans)
        \/ \E ans \in Responses : HealthResolves(c, ans)
        \/ \E ans \in Responses : CreateAgentResolves(c, ans)
        \/ \E t \in ToolLists, m \in ActionMaps, a \in DefaultActions,
              d \in DenyCallbacks : CallGetTools(c, t, m, a, d)
        \/ \E e \in Environments, g \in GatewayArgs, t \in AgentTokenArgs :
               CallNewClient(c, e, g, t)
        \/ CallListAgents(c)
        \/ \E i \in AgentIds : CallRevokeAgent(c, i)
        \/ CallListPolicies(c)
        \/ \E d \in AuditDecisions : CallGetAuditLog(c, d)
        \/ \E ans \in Responses : ListAgentsResolves(c, ans)
        \/ \E ans \in Responses : RevokeAgentResolves(c, ans)
        \/ \E ans \in Responses : ListPoliciesResolves(c, ans)
        \/ \E ans \in Responses : GetAuditLogResolves(c, ans)
        \/ \E ans \in Responses : CheckResolves(c, ans)
        \/ \E ans \in Responses : EnforceResolves(c, ans)
        \/ \E ans \in Responses : GovernEnters(c, ans)
        \/ \E ans \in Responses, dv \in DenyResults : RunEnforces(c, ans, dv)
        \/ \E ans \in Responses, dv \in DenyResults : ArunEnforces(c, ans, dv)
        \/ \E ans \in Responses, dv \in DenyResults : WrapperEnforces(c, ans, dv)
        \/ \E out \in GuardedOutcomes, dv \in DenyResults : RunReturns(c, out, dv)
        \/ \E out \in GuardedOutcomes, dv \in DenyResults : ArunReturns(c, out, dv)
        \/ \E out \in GuardedOutcomes, dv \in DenyResults : WrapperReturns(c, out, dv)
        \/ \E out \in GuardedOutcomes : GovernExits(c, out)
        \/ CallerResumes(c)

Spec == Init /\ [][Next]_vars

\* Several execution contexts call check, enforce and govern on the one
\* client, their steps interleaved in every order.
ConcResources == {None, "contacts/789"}
ConcBodies ==
    {[kind |-> "empty"],
     [kind |-> "object",
      json |-> [policy |-> "strict", message |-> "Delete operations not allowed"]]}
ConcResponses ==
    {[kind |-> "response", status_code |-> s, body |-> b]
     : s \in {200, 403, 500}, b \in ConcBodies}
    \cup {TransportFailure}

NextConc ==
    \E c \in Ctxs :
        \/ \E a \in ActionIds, r \in ConcResources : CallCheck(c, a, r)
        \/ \E a \in ActionIds, r \in ConcResources : CallEnforce(c, a, r)
        \/ \E a \in ActionIds, r \in ConcResources : CallGovern(c, a, r)
        \/ \E ans \in ConcResponses : CheckResolves(c, ans)
        \/ \E ans \in ConcResponses : EnforceResolves(c, ans)
        \/ \E ans \in ConcResponses : GovernEnters(c, ans)
        \/ \E out \in GuardedOutcomes : GovernExits(c, out)
        \/ CallerResumes(c)

SpecConc == Init /\ [][NextConc]_vars

(***************************************************************************)
(* Properties                                                              *)
(***************************************************************************)

\* The wire format of the authority: no content, or a JSON object.
WireFormat(body) == body.kind \in {"empty", "object"}

\* A field of the body as the authority supplied it, None when it did not.
BodyField(body, k) ==
    IF body.kind = "object" /\ k \in DOMAIN body.json THEN body.json[k] ELSE None

Answered(c, status) ==
    answer[c].kind = "response" /\ answer[c].status_code = status

Done(c, op) == pc[c] = "done" /\ call[c].op = op

AllowReturned(out) == out.kind = "return" /\ out.decision.allowed

\* C1: the guarded code of run, arun, a decorated function or a govern scope
\* has begun only if the check of that same call returned an allow Decision;
\* after a 403, a 401, a 429, any other status >= 400 or a transport
\* exception it has not begun.
C1_FailClosedGating ==
    \A c \in Ctxs :
        started[c] # <<>> =>
            /\ call[c].op \in {"run", "arun", "wrapper", "govern"}
            /\ AllowReturned(checked[c])
            /\ answer[c].kind = "response"
            /\ answer[c].status_code < 400

C1_Witness ==
    \E c \in Ctxs :
        /\ call[c].op = "run"
        /\ pc[c] = "guarded"
        /\ Len(started[c]) = 1
        /\ AllowReturned(checked[c])

\* C2: for a 403 answer in the wire format, check returns (does not raise) a
\* Decision with allowed false, decision "deny", the requested action
\* whatever action the body names, and policy, rule and reason equal to the
\* body's policy, rule and message.
C2_CheckAdvisoryOnDeny ==
    \A c \in Ctxs :
        (Done(c, "check") /\ Answered(c, 403) /\ WireFormat(answer[c].body)) =>
            /\ result[c].kind = "return"
            /\ result[c].decision.allowed = FALSE
            /\ result[c].decision.decision = "deny"
            /\ result[c].decision.action = call[c].action
            /\ result[c].decision.policy = BodyField(answer[c].body, "policy")
            /\ result[c].decision.rule = BodyField(answer[c].body, "rule")
            /\ result[c].decision.reason = BodyField(answer[c].body, "message")

C2_Witness ==
    \E c \in Ctxs :
        /\ Done(c, "check")
        /\ Answered(c, 403)
        /\ answer[c].body.kind = "object"
        /\ DOMAIN answer[c].body.json = {"policy", "rule", "action"}
        /\ result[c].kind = "return"
        /\ result[c].decision.action # answer[c].body.json["action"]
        /\ result[c].decision.reason = None

\* C3: for a 200 answer, with a JSON object or with no content, check returns
\* without error a Decision with allowed true, decision "allow", the
\* requested action, the body's policy when it has one and none otherwise,
\* and no rule and no reason.
C3_CheckAllow ==
    \A c \in Ctxs :
        (Done(c, "check") /\ Answered(c, 200) /\ WireFormat(answer[c].body)) =>
            /\ result[c].kind = "return"
            /\ result[c].decision.allowed = TRUE
            /\ result[c].decision.decision = "allow"
            /\ result[c].decision.action = call[c].action
            /\ result[c].decision.policy = BodyField(answer[c].body, "policy")
            /\ result[c].decision.rule = None
            /\ result[c].decision.reason = None

C3_Witness ==
    \E c \in Ctxs :
        /\ Done(c, "check")
        /\ Answered(c, 200)
        /\ answer[c].body.kind = "empty"
        /\ AllowReturned(result[c])
        /\ result[c].decision.policy = None

DenyReturned(out) == out.kind = "return" /\ ~out.decision.allowed

DenialRaised(out) == out.kind = "raise" /\ out.err.type = "PolicyDeniedError"

\* C4: enforce hands the transport exactly the one request of check and no
\* other; it returns exactly the Decision check returned when that is an
\* allow, raises PolicyDeniedError when it is a deny, and never returns a
\* deny Decision.
C4_EnforceIsCheckThenBranch ==
    \A c \in Ctxs :
        Done(c, "enforce") =>
            /\ sent[c] = <<CheckRequest(client, call[c].action, call[c].resource)>>
            /\ AllowReturned(checked[c]) => result[c] = checked[c]
            /\ DenyReturned(checked[c]) => DenialRaised(result[c])
            /\ ~DenyReturned(result[c])

C4_Witness ==
    \E c \in Ctxs :
        /\ Done(c, "enforce")
        /\ Len(sent[c]) = 1
        /\ DenyReturned(checked[c])
        /\ DenialRaised(result[c])

SuppliesAttribution(body) ==
    body.kind = "object" /\ {"policy", "rule", "message"} \subseteq DOMAIN body.json

DenialCarriesBody(c) ==
    /\ DenialRaised(result[c])
    /\ result[c].err.action = call[c].action
    /\ result[c].err.policy = answer[c].body.json["policy"]
    /\ result[c].err.rule = answer[c].body.json["rule"]
    /\ result[c].err.reason = answer[c].body.json["message"]

\* C5 as stated: enforce against a 403 whose body supplies policy, rule and
\* message raises PolicyDeniedError with the requested action and the body's
\* policy, rule and message.  An empty message refutes it: the exception
\* replaces it by the default reason.
C5_EnforceDenialAsStated ==
    \A c \in Ctxs :
        (Done(c, "enforce") /\ Answered(c, 403)
            /\ SuppliesAttribution(answer[c].body)) => DenialCarriesBody(c)

\* C5 amended: enforce against a 403 whose body supplies policy, rule and a
\* non-empty message raises PolicyDeniedError with the requested action and
\* the body's policy, rule and message.
C5_EnforceDenialCarriesAttribution ==
    \A c \in Ctxs :
        (Done(c, "enforce") /\ Answered(c, 403)
            /\ SuppliesAttribution(answer[c].body)
            /\ answer[c].body.json["message"] # "") => DenialCarriesBody(c)

C5_Witness ==
    \E c \in Ctxs :
        /\ Done(c, "enforce")
        /\ Answered(c, 403)
        /\ SuppliesAttribution(answer[c].body)
        /\ answer[c].body.json["message"] = "Delete operations not allowed"
        /\ call[c].action = "delete:database"
        /\ DenialCarriesBody(c)

\* The exception type of a failure status other than 403.
FailureType(status) ==
    CASE status = 401 -> "AuthenticationError"
      [] status = 429 -> "RateLimitError"
      [] OTHER -> "MeshGuardError"

FailureAnswered(c) ==
    /\ answer[c].kind = "response"
    /\ answer[c].status_code >= 400
    /\ answer[c].status_code # 403

\* C6: for a 401 check raises AuthenticationError, for a 429 RateLimitError,
\* for any other status >= 400 except 403 the generic MeshGuardError, and it
\* returns no Decision; enforce and govern raise that same error of check
\* unchanged, and no scope body begins.
C6_OnlyDenyIsSwallowed ==
    \A c \in Ctxs :
        (call[c].op \in {"check", "enforce", "govern"} /\ FailureAnswered(c)) =>
            /\ pc[c] = "done"
            /\ result[c].kind = "raise"
            /\ result[c].err.type = FailureType(answer[c].status_code)
            /\ result[c] = checked[c]
            /\ started[c] = <<>>

C6_Witness ==
    \E c \in Ctxs :
        /\ Done(c, "govern")
        /\ Answered(c, 429)
        /\ result[c] = Raises(RateLimitError("Rate limit exceeded"))

\* C7: the body of a govern scope has begun if and only if the enforce of
\* that scope succeeded: on allow it runs once with the allow Decision bound,
\* on denial it never begins and the PolicyDeniedError of enforce is what the
\* caller gets.
C7_GovernBodyIffEnforced ==
    \A c \in Ctxs :
        (call[c].op = "govern" /\ pc[c] \in {"guarded", "done"}) =>
            /\ started[c] # <<>> <=> AllowReturned(checked[c])
            /\ AllowReturned(checked[c]) =>
                   started[c] = <<[target |-> "body", args |-> None,
                                   decision |-> checked[c].decision]>>
            /\ DenyReturned(checked[c]) =>
                   /\ pc[c] = "done"
                   /\ result[c] =
                          Raises(PolicyDeniedError(call[c].action,
                                                   checked[c].decision.policy,
                                                   checked[c].decision.rule,
                                                   checked[c].decision.reason))

C7_Witness ==
    \E c \in Ctxs :
        /\ Done(c, "govern")
        /\ Answered(c, 403)
        /\ started[c] = <<>>
        /\ DenialRaised(result[c])

\* C8 as stated: when the enforce of run succeeded, the tool's run was invoked
\* exactly once with the arguments run received, run returns that
\* invocation's result unchanged, and on_deny is not invoked.  Refuted when
\* the tool itself raises PolicyDeniedError and on_deny is configured.
C8_RunPassThrough ==
    \A c \in Ctxs :
        (Done(c, "run") /\ AllowReturned(checked[c])) =>
            /\ started[c] = <<[target |-> "tool.run", args |-> call[c].args,
                               decision |-> NoDecision]>>
            /\ finished[c].kind = "value" => result[c] = finished[c]
            /\ denied[c] = <<>>

\* C9: when the enforcement of run is denied (403), the tool's run is never
\* invoked; with on_deny configured, on_deny is invoked once with the
\* PolicyDeniedError and the original arguments and run returns what it
\* returned; with none, run raises the PolicyDeniedError.
C9_RunDenied ==
    \A c \in Ctxs :
        (Done(c, "run") /\ Answered(c, 403) /\ WireFormat(answer[c].body)) =>
            /\ started[c] = <<>>
            /\ call[c].on_deny =>
                   /\ Len(denied[c]) = 1
                   /\ denied[c][1].err.type = "PolicyDeniedError"
                   /\ denied[c][1].err.action = call[c].action
                   /\ denied[c][1].err.policy = BodyField(answer[c].body, "policy")
                   /\ denied[c][1].err.rule = BodyField(answer[c].body, "rule")
                   /\ denied[c][1].args = call[c].args
                   /\ result[c] = Value(denied[c][1].returned)
            /\ ~call[c].on_deny =>
                   /\ denied[c] = <<>>
                   /\ DenialRaised(result[c])
                   /\ result[c].err.action = call[c].action
                   /\ result[c].err.policy = BodyField(answer[c].body, "policy")
                   /\ result[c].err.rule = BodyField(answer[c].body, "rule")

C9_Witness ==
    \E c \in Ctxs :
        /\ Done(c, "run")
        /\ Answered(c, 403)
        /\ call[c].on_deny
        /\ started[c] = <<>>
        /\ Len(denied[c]) = 1
        /\ result[c] = Value("Access denied")

\* C10: when the enforcement round trip of run, arun or a decorated function
\* fails with a 401, a 429 or another status >= 400 except 403, the error of
\* check reaches the caller unchanged, with or without an on_deny callback,
\* and neither on_deny nor the tool is invoked.
C10_OnlyDenialIntercepted ==
    \A c \in Ctxs :
        (call[c].op \in {"run", "arun", "wrapper"} /\ FailureAnswered(c)) =>
            /\ pc[c] = "done"
            /\ result[c].kind = "raise"
            /\ result[c].err.type = FailureType(answer[c].status_code)
            /\ result[c] = checked[c]
            /\ denied[c] = <<>>
            /\ started[c] = <<>>

C10_Witness ==
    \E c \in Ctxs :
        /\ Done(c, "arun")
        /\ call[c].on_deny
        /\ Answered(c, 401)
        /\ result[c] = Raises(AuthenticationError("Invalid or expired token"))
        /\ denied[c] = <<>>

\* C11: in arun the enforcement round trip and the tool's asynchronous
\* invocation never overlap: tool.arun has been started only once the answer
\* is in and enforce returned an allow; arun returns only after the tool
\* finished and returns the tool's result; after a 403 tool.arun is never
\* started, on_deny (when configured) is invoked once with the denial and the
\* original arguments and its value returned, and otherwise the denial is
\* raised.
C11_ArunAfterEnforce ==
    \A c \in Ctxs :
        call[c].op = "arun" =>
            /\ started[c] # <<>> =>
                   /\ pc[c] \in {"guarded", "done"}
                   /\ answer[c] # NoResponse
                   /\ AllowReturned(checked[c])
                   /\ started[c] = <<[target |-> "tool.arun",
                                      args |-> call[c].args,
                                      decision |-> NoDecision]>>
            /\ (started[c] # <<>> /\ result[c] # Pending) =>
                   finished[c] # Pending
            /\ (pc[c] = "done" /\ finished[c].kind = "value") =>
                   result[c] = finished[c]
            /\ (pc[c] = "done" /\ Answered(c, 403)
                   /\ WireFormat(answer[c].body)) =>
                   /\ started[c] = <<>>
                   /\ call[c].on_deny =>
                          /\ Len(denied[c]) = 1
                          /\ DenialRaised(Raises(denied[c][1].err))
                          /\ denied[c][1].err.action = call[c].action
                          /\ denied[c][1].args = call[c].args
                          /\ result[c] = Value(denied[c][1].returned)
                   /\ ~call[c].on_deny =>
                          /\ denied[c] = <<>>
                          /\ DenialRaised(result[c])
                          /\ result[c].err.action = call[c].action

C11_Witness ==
    \E c \in Ctxs :
        /\ Done(c, "arun")
        /\ Answered(c, 200)
        /\ Len(started[c]) = 1
        /\ finished[c] = Value("result-1")
        /\ result[c] = Value("result-1")

\* C12 as stated: for the same action and the same 403 answer, the
\* PolicyDeniedError enforce raises carries the action, policy, rule and
\* reason of the deny Decision check returned for that answer.  Refuted by a
\* body without a message (or with an empty one): the Decision's reason is
\* None (or ""), the exception's is the default reason.
C12_SameAttribution ==
    \A c \in Ctxs :
        (Done(c, "enforce") /\ Answered(c, 403) /\ DenyReturned(checked[c])) =>
            /\ DenialRaised(result[c])
            /\ result[c].err.action = checked[c].decision.action
            /\ result[c].err.policy = checked[c].decision.policy
            /\ result[c].err.rule = checked[c].decision.rule
            /\ result[c].err.reason = checked[c].decision.reason

\* The reason a denial carries, raised or returned.
ReasonOf(out) ==
    IF out.kind = "raise" THEN out.err.reason ELSE out.decision.reason

\* C13 as stated: a 403 answer with no content, or with a body without a
\* message, comes to a denial whose reason is "Access denied by policy",
\* raised by enforce and govern and returned by check.  Refuted by check,
\* whose deny Decision has reason None.
C13_DenialAlwaysHasReason ==
    \A c \in Ctxs :
        (pc[c] = "done" /\ call[c].op \in {"check", "enforce", "govern"}
            /\ Answered(c, 403) /\ WireFormat(answer[c].body)
            /\ BodyField(answer[c].body, "message") = None) =>
            /\ DenialRaised(result[c]) \/ DenyReturned(result[c])
            /\ ReasonOf(result[c]) = DefaultReason

\* The operations that hand their answer to _handle_response and pass its
\* exception on: the proxy request and the admin operation.
HandledDirectly(c) ==
    /\ pc[c] = "done"
    /\ call[c].op \in {"request", "create_agent"}
    /\ answer[c].kind = "response"
    /\ WireFormat(answer[c].body)

\* What C14 says of an answer with the status and body of c's: the exception
\* raised, or the parsed body returned; reason is the reason it names for a
\* 403 whose body is b.
StatedResolution(c, reason) ==
    LET status == answer[c].status_code
        b == answer[c].body
    IN  /\ status = 401 =>
               /\ result[c].kind = "raise"
               /\ result[c].err.type = "AuthenticationError"
        /\ status = 403 =>
               /\ DenialRaised(result[c])
               /\ result[c].err.action =
                      (IF BodyField(b, "action") = None
                       THEN "unknown" ELSE BodyField(b, "action"))
               /\ result[c].err.policy = BodyField(b, "policy")
               /\ result[c].err.rule = BodyField(b, "rule")
               /\ result[c].err.reason = reason
        /\ status = 429 =>
               /\ result[c].kind = "raise"
               /\ result[c].err.type = "RateLimitError"
        /\ (status >= 400 /\ status \notin {401, 403, 429}) =>
               result[c] = Raises(MeshGuardError(status, b))
        /\ status < 400 =>
               /\ result[c].kind = "value"
               /\ call[c].op = "create_agent" =>
                      result[c].val =
                          (IF b.kind = "object" THEN b.json ELSE EmptyDict)

DecisionsOf(c) ==
    {o.decision : o \in {o \in {checked[c], result[c]} : o.kind = "return"}}
    \cup {started[c][i].decision :
          i \in {i \in DOMAIN started[c] : started[c][i].decision # NoDecision}}

\* C15: every Decision produced by check, enforce or a govern scope has
\* decision "allow" exactly when allowed is true and "deny" exactly when
\* allowed is false, and no other decision value.
C15_DecisionMatchesAllowed ==
    \A c \in Ctxs : \A d \in DecisionsOf(c) :
        /\ d.decision \in {"allow", "deny"}
        /\ d.allowed \in BOOLEAN
        /\ d.decision = "allow" <=> d.allowed = TRUE
        /\ d.decision = "deny" <=> d.allowed = FALSE

C15_Witness ==
    \E c \in Ctxs :
        /\ Done(c, "check")
        /\ Answered(c, 403)
        /\ result[c].kind = "return"
        /\ result[c].decision.decision = "deny"
        /\ result[c].decision.allowed = FALSE

GovernanceOps == {"check", "enforce", "govern", "run", "arun", "wrapper"}

\* C16: a call of check, enforce, govern, run, arun or a decorated function
\* has handed the transport exactly one request, the request of check, from
\* the moment it blocks to the moment its caller resumes, whatever the
\* answer; after a failure status the error has been raised to the caller
\* with that one request sent.
C16_ExactlyOneRequest ==
    \A c \in Ctxs :
        (call[c].op \in GovernanceOps /\ pc[c] # "idle") =>
            /\ sent[c] = <<CheckRequest(client, call[c].action, call[c].resource)>>
            /\ FailureAnswered(c) =>
                   /\ pc[c] = "done"
                   /\ result[c].kind = "raise"
                   /\ result[c].err.type = FailureType(answer[c].status_code)

C16_Witness ==
    \E c \in Ctxs :
        /\ Done(c, "check")
        /\ Answered(c, 500)
        /\ Len(sent[c]) = 1
        /\ result[c].kind = "raise"
        /\ result[c].err.type = "MeshGuardError"

\* C17: two calls of check (or of enforce) on the one client with the same
\* action and resource, answered with the same response, come to results
\* equal in every field, whatever calls either context and the client went
\* through before.
C17_HistoryIndependent ==
    \A c \in Ctxs, o \in Ctxs :
        (/\ pc[c] = "done" /\ pc[o] = "done"
         /\ call[c].op \in {"check", "enforce"}
         /\ call[c] = call[o]
         /\ answer[c] = answer[o]) => result[c] = result[o]

C17_Witness ==
    \E c \in Ctxs, o \in Ctxs :
        /\ c # o
        /\ Done(c, "check") /\ Done(o, "check")
        /\ call[c] = call[o]
        /\ Answered(c, 403) /\ answer[c] = answer[o]
        /\ DenyReturned(result[c])
        /\ result[c] = result[o]

\* What C18 says of one context, whatever the other contexts do.
OwnRequestAndOutcome(c) ==
    /\ sent[c] = <<CheckRequest(client, call[c].action, call[c].resource)>>
    /\ sent[c][1].headers["X-MeshGuard-Action"] = call[c].action
    /\ Truthy(call[c].resource) =>
           sent[c][1].headers["X-MeshGuard-Resource"] = call[c].resource
    /\ (pc[c] = "done" /\ result[c].kind = "return") =>
           result[c].decision.action = call[c].action
    /\ (pc[c] = "done" /\ DenialRaised(result[c])) =>
           result[c].err.action = call[c].action
    /\ (pc[c] = "done" /\ Answered(c, 403)) =>
           /\ IF call[c].op = "check"
              THEN DenyReturned(result[c]) ELSE DenialRaised(result[c])
           /\ checked[c].decision.policy = BodyField(answer[c].body, "policy")
           /\ checked[c].decision.reason = BodyField(answer[c].body, "message")
    /\ (pc[c] = "done" /\ Answered(c, 200)) =>
           /\ AllowReturned(result[c])
           /\ result[c].decision.policy = BodyField(answer[c].body, "policy")
    /\ (pc[c] = "done" /\ Answered(c, 500)) =>
           result[c] = Raises(MeshGuardError(500, answer[c].body))

\* C18: in every interleaving of check and enforce calls of different
\* contexts on the one client, each call sends one request carrying its own
\* action and resource, what it returns or raises carries its own action and
\* follows from its own answer, and no step changes the client's
\* configuration.
C18_NoInterference ==
    /\ [](\A c \in Ctxs :
              (call[c].op \in {"check", "enforce"} /\ pc[c] # "idle") =>
                  OwnRequestAndOutcome(c))
    /\ [][client' = client]_vars

C18_Witness ==
    \E c \in Ctxs, o \in Ctxs :
        /\ Done(c, "check") /\ Done(o, "enforce")
        /\ call[c].action # call[o].action
        /\ Answered(c, 403) /\ DenyReturned(result[c])
        /\ Answered(o, 200) /\ AllowReturned(result[o])
        /\ result[c].decision.action = call[c].action
        /\ result[o].decision.action = call[o].action

\* C19 as stated: the client has one non-empty trace id, no step changes it,
\* every request the client has handed to the transport (check, proxy
\* request, health, admin operation) carries it as X-MeshGuard-Trace-ID, and
\* every Decision the client returned has it as trace_id.  Refuted by
\* health, whose request carries no header at all.
C19_OneTraceIdEverywhere ==
    /\ [](/\ Truthy(client.trace_id)
          /\ \A c \in Ctxs :
                 /\ \A i \in DOMAIN sent[c] :
                        Get(sent[c][i].headers, "X-MeshGuard-Trace-ID", None)
                            = client.trace_id
                 /\ \A d \in DecisionsOf(c) : d.trace_id = client.trace_id)
    /\ [][client'.trace_id = client.trace_id]_vars

\* What C20 says of the request of a call in context c, where supplied tells
\* whether its resource argument counts as supplied.
StatedCheckHeaders(c, supplied) ==
    LET headers == sent[c][1].headers
    IN  /\ Len(sent[c]) = 1
        /\ Get(headers, "X-MeshGuard-Action", None) = call[c].action
        /\ IF supplied
           THEN Get(headers, "X-MeshGuard-Resource", None) = call[c].resource
           ELSE "X-MeshGuard-Resource" \notin DOMAIN headers
        /\ IF client.agent_token # None
           THEN Get(headers, "Authorization", None)
                    = <<"Bearer", client.agent_token>>
           ELSE "Authorization" \notin DOMAIN headers

\* C20 as stated: the request of check(a, r), and so of enforce and govern,
\* carries X-MeshGuard-Action a, X-MeshGuard-Resource r whenever a resource
\* is supplied and no resource header otherwise, and Authorization: Bearer
\* <agent token> exactly when an agent token is configured.  Refuted by the
\* resource "": it is supplied and no header is sent.
C20_CheckHeadersAsStated ==
    \A c \in Ctxs :
        (call[c].op \in GovernanceOps /\ pc[c] # "idle") =>
            StatedCheckHeaders(c, call[c].resource # None)

\* C20 amended: as stated, with the resource header sent whenever the
\* resource is a non-empty string and not sent when it is None or empty.
C20_CheckHeaders ==
    \A c \in Ctxs :
        (call[c].op \in GovernanceOps /\ pc[c] # "idle") =>
            StatedCheckHeaders(c, Truthy(call[c].resource))

C20_Witness ==
    \E c \in Ctxs :
        /\ call[c].op = "check"
        /\ pc[c] = "awaiting"
        /\ call[c].resource = "contacts/789"
        /\ client.agent_token = "test-agent-token"
        /\ sent[c][1].headers["X-MeshGuard-Resource"] = "contacts/789"
        /\ sent[c][1].headers["Authorization"] = <<"Bearer", "test-agent-token">>

AdminOps ==
    {"list_agents", "create_agent", "revoke_agent", "list_policies",
     "get_audit_log"}

\* C21: on a client without admin token each admin operation raises
\* AuthenticationError and no request has been sent; on a client with one,
\* its one request carries X-Admin-Token with that token and the client's
\* trace id and carries no Authorization header, also when the client has an
\* agent token.
C21_AdminFailsLocally ==
    \A c \in Ctxs :
        (call[c].op \in AdminOps /\ pc[c] # "idle") =>
            IF client.admin_token = None
            THEN /\ pc[c] = "done"
                 /\ sent[c] = <<>>
                 /\ answer[c] = NoResponse
                 /\ result[c].kind = "raise"
                 /\ result[c].err.type = "AuthenticationError"
            ELSE /\ Len(sent[c]) = 1
                 /\ Get(sent[c][1].headers, "X-Admin-Token", None)
                        = client.admin_token
                 /\ Get(sent[c][1].headers, "X-MeshGuard-Trace-ID", None)
                        = client.trace_id
                 /\ "Authorization" \notin DOMAIN sent[c][1].headers

C21_Witness ==
    \E c \in Ctxs :
        /\ Done(c, "revoke_agent")
        /\ client.admin_token = None
        /\ client.agent_token # None
        /\ sent[c] = <<>>
        /\ result[c] =
               Raises(AuthenticationError("Admin token required for this operation"))

\* The action C22 names for a tool: the map's entry for the tool's name (the
\* name of its class when it has no name attribute), the default otherwise.
StatedAction(action_map, default_action, tool) ==
    LET name == IF "name" \in DOMAIN tool THEN tool.name ELSE tool["class"]
    IN  IF action_map # NoActionMap /\ name \in DOMAIN action_map
        THEN action_map[name] ELSE default_action

\* C22: get_tools returns one GovernedTool per input tool, in input order,
\* each wrapping its input tool with the action of the map for the tool's
\* name or the default action, all with the toolkit's client and on_deny.
C22_OneWrapperPerTool ==
    \A c \in Ctxs :
        Done(c, "get_tools") =>
            /\ result[c].kind = "value"
            /\ DOMAIN result[c].val = DOMAIN call[c].tools
            /\ \A i \in DOMAIN call[c].tools :
                   /\ result[c].val[i].tool = call[c].tools[i]
                   /\ result[c].val[i].action =
                          StatedAction(call[c].action_map,
                                       call[c].default_action, call[c].tools[i])
                   /\ result[c].val[i].client = client
                   /\ result[c].val[i].on_deny = call[c].on_deny

C22_Witness ==
    \E c \in Ctxs :
        /\ Done(c, "get_tools")
        /\ Len(call[c].tools) = 2
        /\ call[c].action_map = ("serpapi" :> "read:web_search")
        /\ result[c].val[1].action = "read:web_search"
        /\ result[c].val[2].action = "execute:tool"

\* C23 as stated: a decorated function is called after its enforce: on allow
\* the function is called exactly once with the caller's arguments and the
\* wrapper returns its result; on a 403 the function is not called, and the
\* wrapper returns what on_deny returned for the denial and the original
\* arguments, or raises the PolicyDeniedError when there is no on_deny.
\* Refuted by a function with a local variable meshguard_decision: its call
\* fails with TypeError before the function runs.
C23_WrapperCallsOnce ==
    \A c \in Ctxs :
        Done(c, "wrapper") =>
            /\ AllowReturned(checked[c]) =>
                   /\ Len(started[c]) = 1
                   /\ started[c][1].target = "func"
                   /\ started[c][1].args = call[c].args
                   /\ finished[c].kind = "value" => result[c] = finished[c]
            /\ (Answered(c, 403) /\ WireFormat(answer[c].body)) =>
                   /\ started[c] = <<>>
                   /\ call[c].on_deny =>
                          /\ Len(denied[c]) = 1
                          /\ denied[c][1].err.action = call[c].action
                          /\ denied[c][1].args = call[c].args
                          /\ result[c] = Value(denied[c][1].returned)
                   /\ ~call[c].on_deny => DenialRaised(result[c])

\* C24 as stated: the wrapper calls the function with the allow Decision as
\* keyword argument meshguard_decision exactly when the function's parameter
\* list has a parameter of that name, and with no extra argument for every
\* other function.  Refuted by a function with a local variable of that name:
\* co_varnames lists it, the keyword is added and the call fails.
C24_InjectsIffParameter ==
    \A c \in Ctxs :
        (call[c].op = "wrapper" /\ pc[c] \in {"guarded", "done"}
            /\ AllowReturned(checked[c])) =>
            /\ Len(started[c]) = 1
            /\ IF call[c].func = "param"
               THEN started[c][1].decision = checked[c].decision
               ELSE started[c][1].decision = NoDecision
            /\ result[c] # Raises(TypeError)

\* The gateway URL C25 names for a construction: the argument, else the
\* environment variable, else "https://dashboard.meshguard.app", without
\* trailing slashes.
StatedGatewayUrl(env, gateway_url) ==
    Rstrip(IF gateway_url # NoUrl THEN gateway_url
           ELSE IF "MESHGUARD_GATEWAY_URL" \in DOMAIN env
           THEN env["MESHGUARD_GATEWAY_URL"]
           ELSE <<"https://dashboard.meshguard.app">>)

\* C25 as stated: a client built with no gateway_url argument and without
\* MESHGUARD_GATEWAY_URL in the environment has the gateway URL
\* "https://dashboard.meshguard.app"; an argument goes before the
\* environment variable, that before the default, and a trailing slash is
\* stripped.  Refuted by the construction without argument and variable: the
\* URL is "http://localhost:3100".
C25_DefaultGatewayUrl ==
    \A c \in Ctxs :
        Done(c, "__init__") =>
            result[c].val.gateway_url =
                StatedGatewayUrl(call[c].env, call[c].gateway_url)

\* C26 as stated: check returns an allow Decision only for an answer with a
\* status from 200 to 299.  Refuted by a 302: every status below 400 comes
\* to an allow.
C26_AllowOnlyOn2xx ==
    \A c \in Ctxs :
        (Done(c, "check") /\ AllowReturned(result[c])) =>
            /\ answer[c].kind = "response"
            /\ answer[c].status_code >= 200
            /\ answer[c].status_code <= 299

\* C27 as stated: in a call of run, arun or a decorated function in which
\* on_deny was invoked, the tool or function was not started.  Refuted by a
\* tool that raises PolicyDeniedError itself after an allow.
C27_DenyCallbackOnlyForCheck ==
    \A c \in Ctxs :
        (call[c].op \in {"run", "arun", "wrapper"} /\ denied[c] # <<>>) =>
            started[c] = <<>>

\* C28: in check a 403 answer is always turned into a deny Decision by the
\* status branch, with the body's message as it is (the handler for a raised
\* PolicyDeniedError would carry the exception's defaulted reason); for every
\* other answer _handle_response raises no PolicyDeniedError, so that handler
\* is never taken and check returns no deny Decision.
C28_ExceptHandlerUnreachable ==
    \A c \in Ctxs :
        (Done(c, "check") /\ answer[c].kind = "response") =>
            /\ (answer[c].status_code = 403 /\ WireFormat(answer[c].body)) =>
                   result[c] =
                       Returns(PolicyDecision(
                                   FALSE, call[c].action, "deny",
                                   BodyField(answer[c].body, "policy"),
                                   BodyField(answer[c].body, "rule"),
                                   BodyField(answer[c].body, "message"),
                                   client.trace_id))
            /\ answer[c].status_code # 403 =>
                   /\ ~DenialRaised(HandleResponse(answer[c]))
                   /\ ~DenyReturned(result[c])

C28_Witness ==
    \E c \in Ctxs :
        /\ Done(c, "check")
        /\ Answered(c, 403)
        /\ answer[c].body.kind = "empty"
        /\ DenyReturned(result[c])
        /\ result[c].decision.reason = None
        /\ HandleResponse(answer[c]).err.reason = DefaultReason

\* C29 as stated: a proxy request sends exactly one request and returns the
\* raw response exactly when its status is below 400; otherwise it raises
\* the error _handle_response maps the status to, a 403 always as
\* PolicyDeniedError with the body's action or "unknown".  Refuted by a
\* response whose content is not JSON: with a status below 400, or 403, the
\* call raises the decoding error of response.json().
C29_ProxyReturnsRawResponse ==
    \A c \in Ctxs :
        (Done(c, "request") /\ answer[c].kind = "response") =>
            /\ Len(sent[c]) = 1
            /\ answer[c].status_code < 400 <=> result[c] = Value(answer[c])
            /\ answer[c].status_code >= 400 => result[c].kind = "raise"
            /\ (answer[c].status_code >= 400 /\ answer[c].status_code # 403) =>
                   result[c].err.type = FailureType(answer[c].status_code)
            /\ answer[c].status_code = 403 =>
                   /\ DenialRaised(result[c])
                   /\ result[c].err.action =
                          (IF BodyField(answer[c].body, "action") = None
                           THEN "unknown"
                           ELSE BodyField(answer[c].body, "action"))

\* The headers C30 names as the client's own for the proxy request of c.
OwnProxyHeaders(c) ==
    LET base == ("X-MeshGuard-Action" :> call[c].action)
                    @@ ("X-MeshGuard-Trace-ID" :> client.trace_id)
    IN  IF client.agent_token # None
        THEN base @@ ("Authorization" :> <<"Bearer", client.agent_token>>)
        ELSE base

\* C30: the headers of a proxy request hold every header the caller supplied
\* and the client's own (the action argument, the trace id, and the bearer
\* Authorization when an agent token is configured); under a name that is
\* one of the client's own the client's value is sent, under every other
\* name the caller's.
C30_ClientHeadersWin ==
    \A c \in Ctxs :
        (call[c].op = "request" /\ pc[c] # "idle") =>
            /\ Len(sent[c]) = 1
            /\ DOMAIN call[c].headers \subseteq DOMAIN sent[c][1].headers
            /\ \A k \in DOMAIN OwnProxyHeaders(c) :
                   Get(sent[c][1].headers, k, None) = OwnProxyHeaders(c)[k]
            /\ \A k \in DOMAIN call[c].headers \ DOMAIN OwnProxyHeaders(c) :
                   sent[c][1].headers[k] = call[c].headers[k]

C30_Witness ==
    \E c \in Ctxs :
        /\ call[c].op = "request"
        /\ pc[c] = "awaiting"
        /\ client.agent_token = "test-agent-token"
        /\ "Authorization" \in DOMAIN call[c].headers
        /\ call[c].headers["X-MeshGuard-Action"] = "caller:action"
        /\ sent[c][1].headers["X-MeshGuard-Action"] = call[c].action
        /\ sent[c][1].headers["Authorization"] = <<"Bearer", "test-agent-token">>
        /\ sent[c][1].headers["X-MeshGuard-Trace-ID"] = client.trace_id
        /\ sent[c][1].headers["X-Custom-Header"] = "custom-value"

=============================================================================
